---- MODULE Spec2Model ----
(***************************************************************************)
(* HP disk protection daemon (PyHp/hp_disk_protection.py).                 *)
(*                                                                         *)
(* The model follows HPDiskProtection.run statement by statement: the      *)
(* blocking read of /dev/freefall, signal.alarm(0), the park / LED /       *)
(* protection_active sequence, the duration policy, the SIGALRM handler,   *)
(* the except branches and the finally clause.  Signals are the            *)
(* environment: SIGALRM is raised by the armed alarm, SIGINT raises        *)
(* KeyboardInterrupt in the main thread, SIGTERM has no handler.           *)
(***************************************************************************)
EXTENDS Integers, Sequences, FiniteSets, TLC

VARIABLES
    device,             \* self.device, the argument of the constructor
    unload_heads_path,  \* self.unload_heads_path
    initError,          \* exception raised by __init__: "none" | "ValueError" | "RuntimeError"
    pc,                 \* position of the main thread inside run()
    data,               \* result of freefall_fd.read(1): "none" | "byte" | "empty"
    park,               \* value held by the unload_heads surface (milliseconds)
    led,                \* value held by the hddprotect LED surface
    protection_active,  \* self.protection_active
    alarm,              \* seconds left on the process alarm timer, 0 = not armed
    tripped,            \* SIGALRM delivered, Python-level handler not yet run
    acFile,             \* /sys/class/power_supply/AC0/online as it reads now
    lidFile,            \* /proc/acpi/button/lid/LID/state as it reads now
    parkOk,             \* return value of the last self.protect(21)
    ledOk,              \* return value of the last self.set_led(True)
    exitBy,             \* which branch left the loop
    result,             \* how run() ended: "none" | "0" | "1" | "exc"
    exitLog,            \* control-surface commands issued after the loop was left
    rearm,              \* an event was read while a deadline was still pending
    tie,                \* an event was read with the fired deadline's handler still to run
    unparks             \* handler runs since the deadline was last armed afresh

ident == <<device, unload_heads_path, initError>>

vars == <<device, unload_heads_path, initError, pc, data, park, led, protection_active, alarm, tripped, acFile, lidFile,
          parkOk, ledOk, exitBy, result, exitLog, rearm, tie, unparks>>

-----------------------------------------------------------------------------
(* Program constants *)

\* the count of handler runs saturates here
MaxUnparks == 2

ParkSeconds == 21
UnparkSeconds == 0
ShortSeconds == 2
LongSeconds == 20
MsPerSecond == 1000

-----------------------------------------------------------------------------
(* File contents, as sequences of characters *)

Whitespace == {" ", "\n", "\t"}

RECURSIVE lstrip(_)
lstrip(s) ==
    IF s = <<>> THEN s
    ELSE IF Head(s) \in Whitespace THEN lstrip(Tail(s)) ELSE s

RECURSIVE rstrip(_)
rstrip(s) ==
    IF s = <<>> THEN s
    ELSE IF s[Len(s)] \in Whitespace THEN rstrip(SubSeq(s, 1, Len(s) - 1)) ELSE s

strip(s) == rstrip(lstrip(s))

lower_char(c) ==
    CASE c = "O" -> "o"
      [] c = "P" -> "p"
      [] c = "E" -> "e"
      [] c = "N" -> "n"
      [] OTHER -> c

lower(s) == [i \in 1..Len(s) |-> lower_char(s[i])]

\* Python's `sub in s` on strings
contains(sub, s) ==
    \E i \in 1..(Len(s) - Len(sub) + 1) : SubSeq(s, i, i + Len(sub) - 1) = sub

Readable(text) == [ok |-> TRUE, text |-> text]
Unreadable == [ok |-> FALSE, text |-> <<>>]

AcTexts == { <<"1", "\n">>, <<"0", "\n">>, <<"1", "0", "\n">> }
LidTexts == { <<"s", ":", " ", "o", "p", "e", "n", "\n">>,
              <<"c", "l", "o", "s", "e", "d", "\n">>,
              <<"O", "P", "E", "N">> }

AcFiles == {Readable(t) : t \in AcTexts} \cup {Unreadable}
LidFiles == {Readable(t) : t \in LidTexts} \cup {Unreadable}

-----------------------------------------------------------------------------
(* Device identity *)

DevPrefix == <<"/", "d", "e", "v", "/">>

Devices == { DevPrefix \o <<"s", "d", "a">>,
             DevPrefix \o <<"s", "d", "b">>,
             DevPrefix,
             <<"i", "n", "v", "a", "l", "i", "d">>,
             <<"/", "h", "o", "m", "e", "/", "t", "e", "s", "t">> }

startswith(s, prefix) ==
    Len(s) >= Len(prefix) /\ SubSeq(s, 1, Len(prefix)) = prefix

SysfsPath(devname) == <<"/sys/block/">> \o devname \o <<"/device/unload_heads">>

\* _set_unload_heads_path: the check and the derived path
set_unload_heads_path(dev) ==
    IF Len(dev) <= 5 \/ ~startswith(dev, DevPrefix)
      THEN [ok |-> FALSE, path |-> <<>>]
      ELSE [ok |-> TRUE, path |-> SysfsPath(SubSeq(dev, 6, Len(dev)))]

\* the unload_heads surfaces this machine has: sda parks its heads, sdb does not
ExistingSurfaces == { SysfsPath(<<"s", "d", "a">>) }

valid_disk_always(path) == TRUE

\* _valid_disk: the surface opens for reading
valid_disk(path) == path \in ExistingSurfaces

-----------------------------------------------------------------------------
(* Device controller and environment sensor *)

\* _write_int: on success the surface holds the value; an OSError is caught,
\* nothing is written and False is returned.
write_int_raises(cur, value, ok) ==
    [val |-> IF ok THEN value ELSE cur, ret |-> ok, raised |-> ~ok]

write_int(cur, value, ok) ==
    [val |-> IF ok THEN value ELSE cur, ret |-> ok, raised |-> FALSE]

protect_stuck(cur, seconds, ok) == write_int(cur, ParkSeconds * MsPerSecond, ok)

protect_extend(cur, seconds, ok) == write_int(cur, cur + seconds * MsPerSecond, ok)

protect_noscale(cur, seconds, ok) == write_int(cur, seconds, ok)

protect(cur, seconds, ok) == write_int(cur, seconds * MsPerSecond, ok)

set_led(cur, on, ok) == write_int(cur, IF on THEN 1 ELSE 0, ok)

on_ac_failclosed(f) == IF f.ok THEN strip(f.text) = <<"1">> ELSE FALSE

on_ac(f) == IF f.ok THEN strip(f.text) = <<"1">> ELSE TRUE

lid_open(f) ==
    IF f.ok THEN contains(<<"o", "p", "e", "n">>, lower(strip(f.text))) ELSE TRUE

SelectedDurationAnd(ac, lid) == IF ac /\ lid THEN ShortSeconds ELSE LongSeconds

\* run, lines 189-192
SelectedDuration(ac, lid) == IF ac \/ lid THEN ShortSeconds ELSE LongSeconds

-----------------------------------------------------------------------------
(* Control positions *)

LoopPcs == {"read", "got", "check", "park", "led", "active", "arm"}
CleanupPcs == {"cleanup1", "cleanup2", "ret"}
EndPcs == {"done", "killed", "failed"}
Alive == pc \notin EndPcs \cup {"new"}

\* run() result for each way of leaving the loop (lines 196, 203, 207, 214)
RunResult(by) ==
    CASE by = "openfail" -> "1"
      [] by = "sigint" -> "0"
      [] by = "readerror" -> "0"
      [] by = "oserror" -> "0"
      [] OTHER -> "exc"

Init ==
    /\ device \in Devices
    /\ unload_heads_path = <<>>
    /\ initError = "none"
    /\ pc = "new"
    /\ data = "none"
    /\ park = 0
    /\ led = 0
    /\ protection_active = FALSE
    /\ alarm = 0
    /\ tripped = FALSE
    /\ acFile = Readable(<<"1", "\n">>)
    /\ lidFile = Readable(<<"s", ":", " ", "o", "p", "e", "n", "\n">>)
    /\ parkOk = TRUE
    /\ ledOk = TRUE
    /\ exitBy = "none"
    /\ result = "none"
    /\ exitLog = <<>>
    /\ rearm = FALSE
    /\ tie = FALSE
    /\ unparks = 0

-----------------------------------------------------------------------------
(* Environment *)

\* The power and lid surfaces change, or become unreadable, at any time.
EnvChange ==
    /\ Alive
    /\ \E a \in AcFiles, l \in LidFiles :
          /\ acFile' = a
          /\ lidFile' = l
    /\ UNCHANGED ident
    /\ UNCHANGED <<pc, data, park, led, protection_active, alarm, tripped,
                   parkOk, ledOk, exitBy, result, exitLog, rearm>>
    /\ UNCHANGED <<tie, unparks>>

\* One second of the armed alarm elapses; at zero SIGALRM is delivered.
Tick ==
    /\ Alive
    /\ alarm > 0
    /\ alarm' = alarm - 1
    /\ tripped' = (tripped \/ alarm = 1)
    /\ UNCHANGED ident
    /\ UNCHANGED <<pc, data, park, led, protection_active, acFile, lidFile,
                   parkOk, ledOk, exitBy, result, exitLog, rearm>>
    /\ UNCHANGED <<tie, unparks>>

\* _signal_handler, run by the interpreter in the main thread at its next
\* check for pending signals.
Handler ==
    /\ tripped
    /\ pc \in {"read", "got", "check"} \cup CleanupPcs
    /\ \E okp \in BOOLEAN, okl \in BOOLEAN :
          /\ park' = protect(park, UnparkSeconds, okp).val
          /\ led' = set_led(led, FALSE, okl).val
    /\ protection_active' = FALSE
    /\ tripped' = FALSE
    /\ exitLog' = IF pc \in CleanupPcs THEN Append(exitLog, "handler") ELSE exitLog
    /\ UNCHANGED ident
    /\ UNCHANGED <<pc, data, alarm, acFile, lidFile, parkOk, ledOk, exitBy,
                   result, rearm>>
    /\ unparks' = IF pc \in CleanupPcs THEN unparks
                   ELSE IF unparks < MaxUnparks THEN unparks + 1 ELSE unparks
    /\ UNCHANGED tie

\* SIGINT: KeyboardInterrupt raised in the main thread.
Sigint ==
    /\ Alive
    /\ IF pc \in LoopPcs
         THEN /\ pc' = "cleanup1"
              /\ exitBy' = "sigint"
              /\ result' = result
         ELSE IF pc \in {"start", "setup"}
         THEN /\ pc' = "cleanup1"
              /\ exitBy' = "interrupt"
              /\ result' = result
         ELSE /\ pc' = "done"
              /\ exitBy' = exitBy
              /\ result' = "exc"
    /\ data' = "none"
    /\ rearm' = FALSE
    /\ UNCHANGED ident
    /\ UNCHANGED <<park, led, protection_active, alarm, tripped, acFile, lidFile,
                   parkOk, ledOk, exitLog>>
    /\ tie' = FALSE
    /\ unparks' = 0

\* SIGTERM sent to the running daemon: no handler is installed, the process
\* ends at once.
Sigterm ==
    /\ pc \in LoopPcs \cup CleanupPcs
    /\ pc' = "killed"
    /\ exitBy' = "sigterm"
    /\ UNCHANGED ident
    /\ UNCHANGED <<data, park, led, protection_active, alarm, tripped, acFile,
                   lidFile, parkOk, ledOk, result, exitLog, rearm>>
    /\ tie' = FALSE
    /\ unparks' = 0

-----------------------------------------------------------------------------
(* __init__ *)

Construct ==
    /\ pc = "new"
    /\ LET r == set_unload_heads_path(device) IN
          /\ unload_heads_path' = r.path
          /\ IF ~r.ok
                THEN pc' = "failed" /\ initError' = "ValueError"
                ELSE IF ~valid_disk(r.path)
                THEN pc' = "failed" /\ initError' = "RuntimeError"
                ELSE pc' = "start" /\ initError' = "none"
    /\ UNCHANGED <<device, data, park, led, protection_active, alarm, tripped,
                   acFile, lidFile, parkOk, ledOk, exitBy, result, exitLog, rearm>>
    /\ UNCHANGED <<tie, unparks>>

-----------------------------------------------------------------------------
(* run() *)

Open ==
    /\ pc = "start"
    /\ \E ok \in BOOLEAN :
          IF ok THEN pc' = "setup" /\ exitBy' = exitBy
                ELSE pc' = "cleanup1" /\ exitBy' = "openfail"
    /\ UNCHANGED ident
    /\ UNCHANGED <<data, park, led, protection_active, alarm, tripped, acFile,
                   lidFile, parkOk, ledOk, result, exitLog, rearm>>
    /\ UNCHANGED <<tie, unparks>>

Setup ==
    /\ pc = "setup"
    /\ pc' = "read"
    /\ UNCHANGED ident
    /\ UNCHANGED <<data, park, led, protection_active, alarm, tripped, acFile,
                   lidFile, parkOk, ledOk, exitBy, result, exitLog, rearm>>
    /\ UNCHANGED <<tie, unparks>>

ReadByte ==
    /\ pc = "read"
    /\ pc' = "got"
    /\ data' = "byte"
    /\ rearm' = (protection_active /\ alarm > 0 /\ ~tripped)
    /\ UNCHANGED ident
    /\ UNCHANGED <<park, led, protection_active, alarm, tripped, acFile, lidFile,
                   parkOk, ledOk, exitBy, result, exitLog>>
    /\ tie' = (protection_active /\ tripped)
    /\ UNCHANGED unparks

ReadEmpty ==
    /\ pc = "read"
    /\ pc' = "got"
    /\ data' = "empty"
    /\ UNCHANGED ident
    /\ UNCHANGED <<park, led, protection_active, alarm, tripped, acFile, lidFile,
                   parkOk, ledOk, exitBy, result, exitLog, rearm>>
    /\ UNCHANGED <<tie, unparks>>

oserror_exit_always(e) == IF e = "EINTR" THEN "eintr" ELSE "readerror"

\* except OSError: errno EINTR continues the loop, any other errno breaks.
oserror_exit(e) == IF e = "EINTR" THEN "none" ELSE "readerror"

ReadError ==
    /\ pc = "read"
    /\ \E e \in {"EINTR", "EIO"} :
          LET x == oserror_exit(e) IN
          IF x = "none"
            THEN pc' = "read" /\ exitBy' = exitBy
            ELSE pc' = "cleanup1" /\ exitBy' = x
    /\ UNCHANGED ident
    /\ UNCHANGED <<data, park, led, protection_active, alarm, tripped, acFile,
                   lidFile, parkOk, ledOk, result, exitLog, rearm>>
    /\ UNCHANGED tie
    /\ unparks' = IF pc' = "read" THEN unparks ELSE 0

AlarmCancel ==
    /\ pc = "got"
    /\ alarm' = 0
    /\ pc' = "check"
    /\ UNCHANGED ident
    /\ UNCHANGED <<data, park, led, protection_active, tripped, acFile, lidFile,
                   parkOk, ledOk, exitBy, result, exitLog, rearm>>
    /\ UNCHANGED <<tie, unparks>>

Dispatch ==
    /\ pc = "check"
    /\ ~tripped
    /\ pc' = IF data = "empty" THEN "read" ELSE "park"
    /\ data' = "none"
    /\ UNCHANGED ident
    /\ UNCHANGED <<park, led, protection_active, alarm, tripped, acFile, lidFile,
                   parkOk, ledOk, exitBy, result, exitLog, rearm>>
    /\ UNCHANGED <<tie, unparks>>

Park ==
    /\ pc = "park"
    /\ ~tripped
    /\ \E ok \in BOOLEAN :
          LET r == protect(park, ParkSeconds, ok) IN
          /\ park' = r.val
          /\ parkOk' = r.ret
          /\ pc' = IF r.raised THEN "cleanup1" ELSE "led"
          /\ exitBy' = IF r.raised THEN "oserror" ELSE exitBy
    /\ UNCHANGED ident
    /\ UNCHANGED <<data, led, protection_active, alarm, tripped, acFile, lidFile,
                   ledOk, result, exitLog, rearm>>
    /\ UNCHANGED <<tie, unparks>>

Led ==
    /\ pc = "led"
    /\ ~tripped
    /\ \E ok \in BOOLEAN :
          LET r == set_led(led, TRUE, ok) IN
          /\ led' = r.val
          /\ ledOk' = r.ret
          /\ pc' = IF r.raised THEN "cleanup1" ELSE "active"
          /\ exitBy' = IF r.raised THEN "oserror" ELSE exitBy
    /\ UNCHANGED ident
    /\ UNCHANGED <<data, park, protection_active, alarm, tripped, acFile, lidFile,
                   parkOk, result, exitLog, rearm>>
    /\ UNCHANGED <<tie, unparks>>

Active ==
    /\ pc = "active"
    /\ ~tripped
    /\ protection_active' = TRUE
    /\ pc' = "arm"
    /\ UNCHANGED ident
    /\ UNCHANGED <<data, park, led, alarm, tripped, acFile, lidFile, parkOk, ledOk,
                   exitBy, result, exitLog, rearm>>
    /\ UNCHANGED <<tie, unparks>>

Arm ==
    /\ pc = "arm"
    /\ ~tripped
    /\ alarm' = SelectedDuration(on_ac(acFile), lid_open(lidFile))
    /\ pc' = "read"
    /\ rearm' = FALSE
    /\ UNCHANGED ident
    /\ UNCHANGED <<data, park, led, protection_active, tripped, acFile, lidFile,
                   parkOk, ledOk, exitBy, result, exitLog>>
    /\ tie' = FALSE
    /\ unparks' = IF rearm THEN unparks ELSE 0

Cleanup1 ==
    /\ pc = "cleanup1"
    /\ ~tripped
    /\ \E ok \in BOOLEAN :
          LET r == protect(park, UnparkSeconds, ok) IN
          /\ park' = r.val
          /\ exitLog' = Append(exitLog, IF ok THEN "protect0:ok" ELSE "protect0:fail")
          /\ pc' = IF r.raised THEN "done" ELSE "cleanup2"
          /\ result' = IF r.raised THEN "exc" ELSE result
    /\ UNCHANGED ident
    /\ UNCHANGED <<data, led, protection_active, alarm, tripped, acFile, lidFile,
                   parkOk, ledOk, exitBy, rearm>>
    /\ UNCHANGED <<tie, unparks>>

Cleanup2 ==
    /\ pc = "cleanup2"
    /\ ~tripped
    /\ \E ok \in BOOLEAN :
          LET r == set_led(led, FALSE, ok) IN
          /\ led' = r.val
          /\ exitLog' = Append(exitLog, IF ok THEN "led0:ok" ELSE "led0:fail")
          /\ pc' = IF r.raised THEN "done" ELSE "ret"
          /\ result' = IF r.raised THEN "exc" ELSE result
    /\ UNCHANGED ident
    /\ UNCHANGED <<data, park, protection_active, alarm, tripped, acFile, lidFile,
                   parkOk, ledOk, exitBy, rearm>>
    /\ UNCHANGED <<tie, unparks>>

Return ==
    /\ pc = "ret"
    /\ ~tripped
    /\ pc' = "done"
    /\ result' = RunResult(exitBy)
    /\ UNCHANGED ident
    /\ UNCHANGED <<data, park, led, protection_active, alarm, tripped, acFile,
                   lidFile, parkOk, ledOk, exitBy, exitLog, rearm>>
    /\ UNCHANGED <<tie, unparks>>

Next ==
    \/ Construct
    \/ EnvChange
    \/ Tick
    \/ Handler
    \/ Sigint
    \/ Sigterm
    \/ Open
    \/ Setup
    \/ ReadByte
    \/ ReadEmpty
    \/ ReadError
    \/ AlarmCancel
    \/ Dispatch
    \/ Park
    \/ Led
    \/ Active
    \/ Arm
    \/ Cleanup1
    \/ Cleanup2
    \/ Return

Spec == Init /\ [][Next]_vars

\* The timer runs and the interpreter executes: every step of the program
\* itself is eventually taken; reads and signals are up to the environment.
FairSpec ==
    /\ Spec
    /\ WF_vars(Tick)
    /\ WF_vars(Handler)
    /\ WF_vars(Construct)
    /\ WF_vars(Open)
    /\ WF_vars(Setup)
    /\ WF_vars(AlarmCancel)
    /\ WF_vars(Dispatch)
    /\ WF_vars(Park)
    /\ WF_vars(Led)
    /\ WF_vars(Active)
    /\ WF_vars(Arm)
    /\ WF_vars(Cleanup1)
    /\ WF_vars(Cleanup2)
    /\ WF_vars(Return)

TypeOK ==
    /\ device \in Devices
    /\ initError \in {"none", "ValueError", "RuntimeError"}
    /\ pc \in {"new", "start", "setup"} \cup LoopPcs \cup CleanupPcs \cup EndPcs
    /\ data \in {"none", "byte", "empty"}
    /\ park \in {0, ParkSeconds * MsPerSecond}
    /\ led \in {0, 1}
    /\ protection_active \in BOOLEAN
    /\ alarm \in 0..LongSeconds
    /\ tripped \in BOOLEAN
    /\ acFile \in AcFiles
    /\ lidFile \in LidFiles
    /\ tie \in BOOLEAN
    /\ unparks \in 0..MaxUnparks

-----------------------------------------------------------------------------
(* Properties *)

InLog(x) == \E i \in 1..Len(exitLog) : exitLog[i] = x

ParkAttempts == {"protect0:ok", "protect0:fail"}
LedAttempts == {"led0:ok", "led0:fail"}
CleanupLogs == {<<p, l>> : p \in ParkAttempts, l \in LedAttempts}

\* protect(0) and later set_led(False) were issued by the finally clause
CleanupExecuted ==
    \E i \in 1..Len(exitLog), j \in 1..Len(exitLog) :
        i < j /\ exitLog[i] \in ParkAttempts /\ exitLog[j] \in LedAttempts

ArmStep == pc = "arm" /\ pc' = "read"

\* the step is the delivery of SIGINT or SIGTERM, not a step of the loop
SignalExit == pc' = "killed" \/ (pc' = "cleanup1" /\ exitBy' = "sigint")

\* C1 as stated: after any events and expiries followed by KeyboardInterrupt,
\* when run has returned the head-park surface holds 0 and the indicator holds 0.
C1_FinalStateOff ==
    (pc = "done" /\ exitBy = "sigint" /\ result = "0") => (park = 0 /\ led = 0)

\* C1 amended: when run returns after a KeyboardInterrupt, both cleanup writes
\* have been attempted in order; the head-park surface holds 0 if the cleanup's
\* protect(0) write succeeded and the indicator holds 0 if the cleanup's
\* set_led(False) write succeeded.
C1_CleanupLeavesOff ==
    (pc = "done" /\ exitBy = "sigint" /\ result = "0") =>
        /\ CleanupExecuted
        /\ InLog("protect0:ok") => park = 0
        /\ InLog("led0:ok") => led = 0

C1_Witness ==
    /\ pc = "done" /\ exitBy = "sigint" /\ result = "0"
    /\ protection_active
    /\ exitLog = <<"protect0:ok", "led0:ok">>
    /\ park = 0 /\ led = 0

\* C2: on every exit path on which run returns, the cleanup protect(0) then
\* set_led(False) is executed exactly once, and no other unpark sequence
\* (the deadline handler's) runs after the loop has been left.
C2_CleanupExactlyOnce ==
    (pc = "done" /\ result \in {"0", "1"}) => exitLog \in CleanupLogs

\* C3: whenever the process is ended by SIGINT or SIGTERM, protect(0) and
\* set_led(False) have been executed before it ends.
C3_TerminationCleansUp ==
    (pc \in EndPcs /\ exitBy \in {"sigint", "sigterm"}) => CleanupExecuted

\* C4: run returns 0 on a shutdown signal and 1 on a fatal error (open failure
\* or non-interrupt read error), with the unpark attempted in the fatal cases.
C4_ExitCode ==
    (pc = "done" /\ result # "exc") =>
        /\ exitBy = "sigint" => result = "0"
        /\ exitBy \in {"openfail", "readerror"} =>
              (result = "1" /\ \E a \in ParkAttempts : InLog(a))

\* C5: at every event the deadline armed is 2 if on_ac() or lid_open() holds of
\* the sensors as they read at that event, and 20 only if both are false.
C5_DurationPolicy ==
    [][ArmStep =>
          LET ac == on_ac(acFile)
              lid == lid_open(lidFile)
          IN /\ (ac /\ lid) => alarm' = 2
             /\ (ac /\ ~lid) => alarm' = 2
             /\ (~ac /\ lid) => alarm' = 2
             /\ (~ac /\ ~lid) => alarm' = 20]_vars

C5_Witness ==
    /\ pc = "read" /\ alarm = 20 /\ protection_active
    /\ ~on_ac(acFile) /\ ~lid_open(lidFile)

\* C6: once an event has been read while Protecting with the deadline still
\* pending, the machine does not go Idle before the new deadline is armed.
C6_NoIdleWhileRearming == rearm => protection_active

\* C7: from Protecting, blocked in the read, the machine eventually is Idle
\* unless a further freefall event is delivered or the process leaves the loop.
C7_EventuallyIdle ==
    (protection_active /\ pc = "read") ~>
        (~protection_active \/ data = "byte" \/ pc \in CleanupPcs \cup EndPcs)

\* C8 (I2): while blocked in the read, or after run has returned,
\* protection_active implies parked (21000) and indicator on (1), and
\* ~protection_active implies both surfaces hold 0.
C8_StateMatchesSurfaces ==
    (pc = "read" \/ (pc = "done" /\ result \in {"0", "1"})) =>
        IF protection_active THEN park = 21000 /\ led = 1
                             ELSE park = 0 /\ led = 0

\* C9: a failing protect(21) or set_led(True) never ends the loop: every step
\* of the loop from an event goes on to the next statement, arms the deadline
\* the policy selects, and the next event issues protect(21) again.
C9_WriteFailuresNonFatal ==
    [][(pc # pc' /\ ~SignalExit) =>
          /\ (pc = "check" /\ data = "byte") => pc' = "park"
          /\ pc = "park" =>
                /\ pc' = "led"
                /\ park' = IF parkOk' THEN 21000 ELSE park
          /\ pc = "led" =>
                /\ pc' = "active"
                /\ led' = IF ledOk' THEN 1 ELSE led
          /\ pc = "active" => pc' = "arm"
          /\ pc = "arm" =>
                /\ pc' = "read"
                /\ alarm' = SelectedDuration(on_ac(acFile), lid_open(lidFile))]_vars

C9_Witness ==
    /\ pc = "read" /\ protection_active
    /\ ~parkOk /\ ~ledOk
    /\ park = 0 /\ led = 0
    /\ alarm = LongSeconds

\* the text is "1", surrounding whitespace aside
IsOne(text) ==
    LET solid == {i \in 1..Len(text) : text[i] \notin Whitespace}
    IN Cardinality(solid) = 1 /\ \A i \in solid : text[i] = "1"

\* the text has "open" in it, in either case
HasOpen(text) ==
    \E i \in 1..(Len(text) - 3) :
        /\ text[i] \in {"o", "O"}
        /\ text[i + 1] \in {"p", "P"}
        /\ text[i + 2] \in {"e", "E"}
        /\ text[i + 3] \in {"n", "N"}

\* C10: an unreadable power surface makes on_ac() true and an unreadable lid
\* surface makes lid_open() true, so an event at which either read fails arms
\* 2 seconds; readable, on_ac() is true exactly for "1" and lid_open() exactly
\* for a text with "open" in it.
C10_FailOpen ==
    [][/\ ~acFile.ok => on_ac(acFile)
       /\ ~lidFile.ok => lid_open(lidFile)
       /\ acFile.ok => (on_ac(acFile) <=> IsOne(acFile.text))
       /\ lidFile.ok => (lid_open(lidFile) <=> HasOpen(lidFile.text))
       /\ (ArmStep /\ (~acFile.ok \/ ~lidFile.ok)) => alarm' = 2]_vars

C10_Witness ==
    /\ pc = "read" /\ alarm = 2 /\ protection_active
    /\ ~acFile.ok
    /\ lidFile.ok /\ ~HasOpen(lidFile.text)

\* "/dev/" followed by a non-empty name
WellFormedDevice(dev) ==
    /\ Len(dev) > Len(DevPrefix)
    /\ \A i \in 1..Len(DevPrefix) : dev[i] = DevPrefix[i]

DeviceName(dev) == [i \in 1..(Len(dev) - Len(DevPrefix)) |-> dev[i + Len(DevPrefix)]]

C11_Probe ==
    /\ pc \notin {"new", "failed"} =>
          /\ WellFormedDevice(device)
          /\ unload_heads_path = SysfsPath(DeviceName(device))
          /\ unload_heads_path \in ExistingSurfaces
          /\ initError = "none"
    /\ pc = "failed" =>
          /\ initError \in {"ValueError", "RuntimeError"}
          /\ ~WellFormedDevice(device) \/ unload_heads_path \notin ExistingSurfaces
          /\ ~protection_active /\ park = 0 /\ led = 0 /\ exitLog = <<>>
    /\ pc = "start" =>
          ~protection_active /\ park = 0 /\ led = 0 /\ alarm = 0

C11_Fixed ==
    /\ pc # "new" => (device' = device /\ unload_heads_path' = unload_heads_path)
    /\ pc = "failed" => pc' = "failed"

\* C11: construction succeeds only for "/dev/<name>" whose derived unload_heads
\* surface opens for reading, and otherwise fails with ValueError or
\* RuntimeError without starting the loop; on success the machine is Idle, no
\* surface has been written, and the device and its path never change again.
C11_Construction == []C11_Probe /\ [][C11_Fixed]_vars

C11_Witness ==
    /\ pc = "start"
    /\ device = DevPrefix \o <<"s", "d", "a">>
    /\ unload_heads_path = <<"/sys/block/", "s", "d", "a", "/device/unload_heads">>
    /\ ~protection_active /\ park = 0 /\ led = 0

\* at most one deadline: a fired one awaiting its handler and an armed one
\* never coexist, and an armed one never exceeds the longest duration
OneDeadline == ~(tripped /\ alarm > 0) /\ alarm \in 0..LongSeconds

\* C12 (I1 with re-arm): at most one deadline is armed; an event in Protecting
\* replaces the pending deadline by one of 2 or 20 seconds counted from that
\* event; and with the second event before the first deadline only one unpark
\* occurs, at the second deadline.
C12_SingleDeadline ==
    [][/\ OneDeadline'
       /\ ArmStep => (alarm = 0 /\ alarm' \in {2, 20})
       /\ unparks' <= 1]_vars

\* a second protect(0), whether its write succeeds or fails, leaves what a
\* first successful one left: 0
UnparkTwiceIsOnce ==
    \A ok2 \in BOOLEAN :
        LET once == protect(park, UnparkSeconds, TRUE).val
        IN once = 0 /\ protect(once, UnparkSeconds, ok2).val = once

\* C13: protect(0) issued twice in a row leaves the head-park surface as one
\* protect(0) leaves it, at 0, from any prior value of the surface; so the
\* cleanup's unpark after the handler's finds 0 and leaves 0.
C13_IdempotentUnpark ==
    /\ []UnparkTwiceIsOnce
    /\ [][(pc = "cleanup1" /\ pc' = "cleanup2" /\ park = 0) => park' = 0]_vars

C13_Witness ==
    /\ pc = "cleanup2"
    /\ exitLog = <<"handler", "protect0:ok">>
    /\ park = 0

\* C14: whenever the loop is blocked in the read and protection_active is
\* True, a deadline is pending (armed, or fired with its handler still to run).
C14_ProtectingHasDeadline ==
    (pc = "read" /\ protection_active) => (alarm > 0 \/ tripped)

\* C15 (tie-break): when an event is read at the instant the armed deadline has
\* fired, the event takes precedence: the handler does not unpark, so the
\* machine stays Protecting until the deadline is armed again.
C15_EventWinsTie == tie => protection_active

\* The steps of one event in source order: protect(21) at "park", set_led(True)
\* at "led", protection_active = True at "active", sensor queries and alarm(N)
\* at "arm".
EventOrder ==
    /\ (pc = "check" /\ data = "byte" /\ pc' \in LoopPcs \ {"check"}) => pc' = "park"
    /\ (pc' = "park" /\ pc # "park") => (pc = "check" /\ data = "byte")
    /\ (pc' = "led" /\ pc # "led") => pc = "park"
    /\ (pc' = "active" /\ pc # "active") => pc = "led"
    /\ (pc' = "arm" /\ pc # "arm") => pc = "active"
    /\ (pc = "park" /\ pc' = "led")
          => park' = (IF parkOk' THEN ParkSeconds * MsPerSecond ELSE park)
    /\ (park' # park /\ park' # 0) => pc = "park"
    /\ (led' # led /\ led' = 1) => pc = "led"
    /\ alarm' > alarm
          => (pc = "arm" /\ alarm' = SelectedDuration(on_ac(acFile), lid_open(lidFile)))

ParkValues == {0, ParkSeconds * MsPerSecond}

\* C16: every freefall event, in Idle and in Protecting alike, runs protect(21)
\* (21000 written to the head-park surface), then set_led(True), then the sensor
\* queries and the arming of the deadline, in that order; the head-park surface
\* only ever holds 21000 or 0.
C16_EventSequence == [](park \in ParkValues) /\ [][EventOrder]_vars

C16_Witness ==
    pc = "arm" /\ rearm /\ protection_active /\ park = ParkSeconds * MsPerSecond /\ led = 1

HandlerStep == tripped /\ ~tripped'

\* C17: a deadline expiry delivered while the loop is in the read is not an
\* error: the loop stays in the read with no exit recorded and the machine goes
\* Idle; the loop leaves the read for the cleanup only on SIGINT or on a read
\* error other than EINTR, and an event read afterwards sets Protecting again.
C17_ExpiryIsNotAnError ==
    [][/\ (HandlerStep /\ pc = "read")
             => (pc' = "read" /\ exitBy' = exitBy /\ ~protection_active')
       /\ (pc = "read" /\ pc' \in CleanupPcs) => exitBy' \in {"sigint", "readerror"}
       /\ (pc = "active" /\ pc' = "arm") => protection_active']_vars

C17_Witness ==
    /\ pc = "read" /\ unparks = 1 /\ ~protection_active
    /\ alarm = 0 /\ ~tripped /\ exitBy = "none" /\ park = 0 /\ led = 0

\* a step of the finally clause itself, not a signal delivered during it
CleanupStep == pc \in CleanupPcs /\ pc' # pc /\ pc' # "killed" /\ result' # "exc"

\* C18: the finally clause attempts protect(0) whatever the earlier writes did,
\* still attempts set_led(False) when that protect(0) fails, and a failing
\* cleanup write neither raises out of run nor changes the value run returns.
C18_CleanupDespiteFailures ==
    /\ []((pc = "done" /\ result \in {"0", "1"}) => CleanupExecuted)
    /\ []((pc = "done" /\ (InLog("protect0:fail") \/ InLog("led0:fail")))
             => InLog("protect0:fail") \/ InLog("protect0:ok"))
    /\ [][/\ (pc = "cleanup1" /\ exitLog' # exitLog /\ ~HandlerStep)
                => (pc' = "cleanup2" /\ result' = result
                    /\ \E a \in ParkAttempts : exitLog' = Append(exitLog, a))
          /\ (pc = "cleanup2" /\ exitLog' # exitLog /\ ~HandlerStep)
                => (pc' = "ret" /\ result' = result
                    /\ \E a \in LedAttempts : exitLog' = Append(exitLog, a))
          /\ (pc = "ret" /\ CleanupStep)
                => (pc' = "done" /\ result' = RunResult(exitBy))]_vars

C18_Witness ==
    /\ pc = "done" /\ result = "0" /\ ~parkOk /\ ~ledOk
    /\ exitLog = <<"protect0:fail", "led0:fail">>

\* C19: once signal.alarm(0) has executed for an event, _signal_handler does
\* not run until the deadline is armed again: inside the loop the handler runs
\* only while the read is blocked or between its return and signal.alarm(0).
C19_HandlerNeverInterleaves ==
    [][(HandlerStep /\ pc \in LoopPcs) => pc \in {"read", "got"}]_vars

\* C20: when run has returned after its cleanup, protection_active is False
\* and no deadline is armed or pending, whichever path left the loop.
C20_ReturnedIdleNoDeadline ==
    (pc = "done" /\ result \in {"0", "1"})
        => (~protection_active /\ alarm = 0 /\ ~tripped)

====
